---- MODULE Spec2Model ----
(***************************************************************************)
(* alltest: the recursive "go test"/"go build" runner of src/alltest.go    *)
(* (the latest version of the program, lines 173-360).                     *)
(*                                                                         *)
(* Strings are sequences of one-character strings, so that                 *)
(* strings.Contains, strings.HasSuffix, strings.Replace and path.Join are  *)
(* computed character by character as the Go library computes them.        *)
(* A directory is identified by its node: the sequence of names leading to *)
(* it from "/".  The recursion of RunTestsRecursively is an explicit stack *)
(* of frames, the top frame being the running call.                        *)
(***************************************************************************)
EXTENDS Integers, Sequences, FiniteSets, TLC

VARIABLES
    fs,          \* the file system: node -> "dir" | "regular" | "special"
    rootDir,     \* baseDir of main: the string os.Getwd() returned
    conf,        \* *Conf: skipDirs, buildOnly, short, race
    cwd,         \* the process working directory (a node)
    stack,       \* the call stack of RunTestsRecursively, top frame last
    status,      \* "running" (in the traversal), "main" (back in main), "exited"
    exitCode,    \* the process exit status, -1 while it runs
    failedDirs,  \* main's failedDirs
    printed,     \* the lines main logged under "Failed directories:"
    calls,       \* history: every exec.Command("go", ...) made
    rets,        \* history: every return of RunTestsRecursively
    infraErr     \* history: the os.Stat/ReadDir/Chdir error that occurred

vars == <<fs, rootDir, conf, cwd, stack, status, exitCode, failedDirs,
          printed, calls, rets, infraErr>>

-----------------------------------------------------------------------------
(* Bounds of the model. *)

\* the most directories below the traversal root
MaxDirs == 2
\* the longest output captured from the go tool
MaxOutLen == 2

-----------------------------------------------------------------------------
(* Names and strings. *)

nA == <<"a", "_", "t", "e", "s", "t", ".", "g", "o">>
nR == <<"r">>
nQ == <<"q">>
nTrash == <<"t", "r", "a", "s", "h">>
fGo == <<"m", ".", "g", "o">>
fTest == <<"m", "_", "t", "e", "s", "t", ".", "g", "o">>
fIgnore == <<".", "a", "l", "l", "t", "e", "s", "t", "i", "g", "n", "o", "r", "e">>

sTest == <<"t", "e", "s", "t">>
sBuild == <<"b", "u", "i", "l", "d">>
sShort == <<"-", "s", "h", "o", "r", "t">>
sRace == <<"-", "r", "a", "c", "e">>

TestSuffix == <<"_", "t", "e", "s", "t", ".", "g", "o">>
GoSuffix == <<".", "g", "o">>

\* the byte values of the characters that occur in file names
Code == [c \in {".", "_", "a", "e", "g", "h", "i", "l", "m", "n", "o", "q", "r", "s", "t"} |->
           CASE c = "." -> 46 [] c = "_" -> 95 [] c = "a" -> 97 [] c = "e" -> 101
             [] c = "g" -> 103 [] c = "h" -> 104 [] c = "i" -> 105 [] c = "l" -> 108
             [] c = "m" -> 109 [] c = "n" -> 110 [] c = "o" -> 111 [] c = "q" -> 113
             [] c = "r" -> 114 [] c = "s" -> 115 [] c = "t" -> 116]

\* strings.Contains(s, substr), substr not empty
Contains(s, substr) ==
    \E i \in 1..(Len(s) - Len(substr) + 1) : SubSeq(s, i, i + Len(substr) - 1) = substr

\* strings.HasSuffix(s, suffix)
HasSuffix(s, suffix) ==
    /\ Len(s) >= Len(suffix)
    /\ SubSeq(s, Len(s) - Len(suffix) + 1, Len(s)) = suffix

\* strings.Replace(s, old, "", -1): every non-overlapping occurrence of old,
\* found from the left, is removed (old not empty)
RECURSIVE ReplaceAll(_, _)
ReplaceAll(s, old) ==
    IF Len(s) < Len(old) THEN s
    ELSE IF SubSeq(s, 1, Len(old)) = old
         THEN ReplaceAll(SubSeq(s, Len(old) + 1, Len(s)), old)
         ELSE <<Head(s)>> \o ReplaceAll(Tail(s), old)

\* path.Join(dir, name) for a clean dir and a plain name: Clean(dir + "/" + name)
Join(dir, name) ==
    IF dir = <<"/">> THEN dir \o name
    ELSE IF dir = <<".">> THEN name
    ELSE dir \o <<"/">> \o name

\* the elements of a path string between its slashes
RECURSIVE SplitPath(_, _, _)
SplitPath(s, cur, acc) ==
    LET done == IF cur = <<>> THEN acc ELSE Append(acc, cur)
    IN  IF s = <<>> THEN done
        ELSE IF Head(s) = "/" THEN SplitPath(Tail(s), <<>>, done)
        ELSE SplitPath(Tail(s), Append(cur, Head(s)), acc)

\* the node a path string names when the working directory is wd: an absolute
\* path is resolved from "/", any other from wd; "." elements are dropped
Resolve(p, wd) ==
    LET elems == SelectSeq(SplitPath(p, <<>>, <<>>), LAMBDA n : n # <<".">>)
    IN  IF p # <<>> /\ Head(p) = "/" THEN elems ELSE wd \o elems

\* the path string of a node
RECURSIVE PathString(_)
PathString(node) ==
    IF node = <<>> THEN <<"/">>
    ELSE IF Len(node) = 1 THEN <<"/">> \o node[1]
    ELSE PathString(SubSeq(node, 1, Len(node) - 1)) \o <<"/">> \o node[Len(node)]

-----------------------------------------------------------------------------
(* The file system. *)

\* the os.FileInfo of a failed os.Stat
NilStat == << <<"<nil>">> >>

\* os.Stat(p): the identity of the file p names, NilStat when there is none
Stat(p, wd) ==
    LET node == Resolve(p, wd) IN IF node \in DOMAIN fs THEN node ELSE NilStat

\* os.SameFile(fi1, fi2): false unless both are stats of the same file
SameFile(fi1, fi2) == fi1 # NilStat /\ fi2 # NilStat /\ fi1 = fi2

\* byte-wise s < t
RECURSIVE ByteLess(_, _)
ByteLess(s, t) ==
    IF t = <<>> THEN FALSE
    ELSE IF s = <<>> THEN TRUE
    ELSE IF Head(s) = Head(t) THEN ByteLess(Tail(s), Tail(t))
    ELSE Code[Head(s)] < Code[Head(t)]

RECURSIVE SortNames(_)
SortNames(S) ==
    IF S = {} THEN <<>>
    ELSE LET least == CHOOSE n \in S : \A o \in S \ {n} : ByteLess(n, o)
         IN  <<least>> \o SortNames(S \ {least})

\* ioutil.ReadDir(dirname) of an existing directory: its entries sorted by filename
ReadDir(node) ==
    LET names == {p[Len(p)] : p \in {q \in DOMAIN fs : Len(q) = Len(node) + 1
                                        /\ SubSeq(q, 1, Len(node)) = node}}
        sorted == SortNames(names)
    IN  [i \in 1..Len(sorted) |-> [name |-> sorted[i], mode |-> fs[Append(node, sorted[i])]]]

\* a run that stays where it is
ChdirNone(target, wd) == wd

\* os.Chdir(dir): the working directory afterwards
Chdir(target, wd) == target

-----------------------------------------------------------------------------
(* The helpers of alltest.go. *)

IsDir(info) == info.mode = "dir"

isNormalFile(stat) == stat.mode = "regular"

isTestFile(stat) == isNormalFile(stat) /\ HasSuffix(stat.name, TestSuffix)

isGoFile(stat) == isNormalFile(stat) /\ HasSuffix(stat.name, GoSuffix)

\* an error that is logged without os.Exit
quitIfErrLogOnly(err) == FALSE

\* quitIfErr(err): whether the process exits
quitIfErr(err) == err

\* NewConf
NewConf(skipDirs, buildOnly, short, race) ==
    [skipDirs |-> skipDirs, buildOnly |-> buildOnly, short |-> short, race |-> race]

\* main's loop over the names of the -skip flag, started in directory wd
RECURSIVE SkipDirStats(_, _)
SkipDirStats(skipDirNames, wd) ==
    IF skipDirNames = <<>> THEN <<>>
    ELSE LET skipDirName == Head(skipDirNames)
             stat == Stat(skipDirName, wd)
             rest == SkipDirStats(Tail(skipDirNames), wd)
         IN  IF skipDirName = <<>> THEN rest
             ELSE IF skipDirName = nTrash /\ stat = NilStat THEN rest
             ELSE <<stat>> \o rest

\* the trash check of RunTestsRecursively
InTrash(dirName) == Contains(dirName, nTrash)

\* the loop over conf.skipDirs
SkipRequested(stat, c) ==
    \E i \in 1..Len(c.skipDirs) : SameFile(stat, c.skipDirs[i])

\* the ignore file is never looked for
HasIgnoreFileNever(dirName, wd) == FALSE

\* the os.Stat of the .alltestignore file succeeded
HasIgnoreFile(dirName, wd) == Stat(Join(dirName, fIgnore), wd) # NilStat

\* the two tests made one after the other instead of else-if
ClassifyBoth(f, info) ==
    [f EXCEPT !.anyTestsInDir = @ \/ isTestFile(info),
              !.anyGoSrcsInDir = @ \/ isGoFile(info)]

\* one iteration of the loop over infos, for an entry that is no directory
Classify(f, info) ==
    IF isTestFile(info) THEN [f EXCEPT !.anyTestsInDir = TRUE]
    ELSE IF isGoFile(info) THEN [f EXCEPT !.anyGoSrcsInDir = TRUE]
    ELSE f

\* failures = failedSubDirs
AppendFailuresOverwrite(failures, failedSubDirs) == failedSubDirs

\* failures = append(failures, failedSubDirs...)
AppendFailures(failures, failedSubDirs) == failures \o failedSubDirs

\* the decision without its buildOnly test
GoRunOptsIgnoringBuildOnly(anyTestsInDir, anyGoSrcsInDir, c) ==
    IF anyTestsInDir
    THEN <<sTest>> \o (IF c.short THEN <<sShort>> ELSE <<>>)
                   \o (IF c.race THEN <<sRace>> ELSE <<>>)
    ELSE IF anyGoSrcsInDir THEN <<sBuild>>
    ELSE <<>>

\* goRunOpts after the decision; <<>> stands for the return without a run
GoRunOpts(anyTestsInDir, anyGoSrcsInDir, c) ==
    IF anyTestsInDir /\ ~c.buildOnly
    THEN <<sTest>> \o (IF c.short THEN <<sShort>> ELSE <<>>)
                   \o (IF c.race THEN <<sRace>> ELSE <<>>)
    ELSE IF anyGoSrcsInDir THEN <<sBuild>>
    ELSE <<>>

\* what the slice expression bytes[0 : len(bytes)-2] panics with
SlicePanic == <<"panic: slice bounds out of range">>

\* the bytes kept of the captured output
TrimOutput(bytes) ==
    IF Len(bytes) > 0 /\ bytes[Len(bytes)] = "\n"
    THEN IF Len(bytes) - 2 < 0 THEN SlicePanic ELSE SubSeq(bytes, 1, Len(bytes) - 2)
    ELSE bytes

\* thisDirPath
ThisDirPath(dirName, root) == ReplaceAll(dirName, root)

-----------------------------------------------------------------------------
(* The inputs: the directory trees, the files, the flags, the tool's output. *)

\* what os.Getwd() returns in main
RootDirs == {<<"/", "r">>, <<"/", "t", "r", "a", "s", "h">>}

\* the directories below the root that a tree may hold, as paths from the root
DirCandidates == {<<nA>>, <<nR>>, <<nTrash>>, <<nA, nR>>, <<nTrash, nA>>}

\* a tree: at most MaxDirs candidates, each with its parent
Trees ==
    {D \in SUBSET DirCandidates :
        /\ Cardinality(D) <= MaxDirs
        /\ \A d \in D : Len(d) > 1 => SubSeq(d, 1, Len(d) - 1) \in D}

\* the files a directory may hold: file name -> mode
FileKinds ==
    { <<>>,
      (fGo :> "regular"),
      (fTest :> "regular"),
      (fGo :> "regular") @@ (fTest :> "regular"),
      (fIgnore :> "regular") @@ (fTest :> "regular"),
      (fGo :> "special") @@ (fTest :> "special") }

\* the file system holding tree D below root, kinds[d] being the files of d
MakeFs(root, D, kinds) ==
    LET rootNode == Resolve(root, <<>>)
        dirs == {rootNode \o d : d \in D \cup {<<>>}}
        files == UNION {{rootNode \o d \o <<n>> : n \in DOMAIN kinds[d]} : d \in D \cup {<<>>}}
    IN  [n \in dirs \cup files |->
            IF n \in dirs THEN "dir"
            ELSE kinds[SubSeq(n, Len(rootNode) + 1, Len(n) - 1)][n[Len(n)]]]

\* the values of the -skip flag, split at its commas
SkipFlags == {<<nTrash>>, <<nA, nQ>>}

\* every string of at most n characters over "o" and the newline
RECURSIVE Strings(_)
Strings(n) ==
    IF n = 0 THEN {<<>>}
    ELSE Strings(n - 1) \cup {Append(s, c) : s \in Strings(n - 1), c \in {"o", "\n"}}

\* what exec.Command(...).Output() may capture
Outputs == Strings(MaxOutLen)

-----------------------------------------------------------------------------
(* The program. *)

\* the frame of a call RunTestsRecursively(rootDir, dirName, conf); node is the
\* directory the caller means, opts/raw/bytes/err are set by the run of the tool
NewFrame(dirName, node) ==
    [pc |-> "enter", dirName |-> dirName, node |-> node, infos |-> <<>>, i |-> 1,
     failures |-> <<>>, anyTestsInDir |-> FALSE, anyGoSrcsInDir |-> FALSE,
     opts |-> <<>>, raw |-> <<>>, bytes |-> <<>>, err |-> FALSE]

Top == stack[Len(stack)]

\* main up to the call of RunTestsRecursively(baseDir, baseDir, conf)
Init ==
    \E root \in RootDirs, D \in Trees, skipFlag \in SkipFlags,
       buildOnly \in BOOLEAN, short \in BOOLEAN, race \in BOOLEAN :
        \E kinds \in [D \cup {<<>>} -> FileKinds] :
            /\ fs = MakeFs(root, D, kinds)
            /\ rootDir = root
            /\ cwd = Resolve(root, <<>>)
            /\ conf = NewConf(SkipDirStats(skipFlag, cwd), buildOnly, short, race)
            /\ stack = <<NewFrame(root, Resolve(root, <<>>))>>
            /\ status = "running"
            /\ exitCode = -1
            /\ failedDirs = <<>>
            /\ printed = <<>>
            /\ calls = <<>>
            /\ rets = <<>>
            /\ infraErr = "none"

\* os.Exit(code)
Exit(code) ==
    /\ status' = "exited"
    /\ exitCode' = code

\* return result: the caller appends it to its failures and goes on to its next
\* entry; main keeps the result of the first call. skipped tells the returns of
\* lines 246, 254 and 262 from those of lines 298 and 322
Return(result, skipped) ==
    /\ rets' = Append(rets, [node |-> Top.node, dirName |-> Top.dirName, result |-> result,
                             skipped |-> skipped, anyTestsInDir |-> Top.anyTestsInDir,
                             anyGoSrcsInDir |-> Top.anyGoSrcsInDir])
    /\ IF Len(stack) = 1
       THEN /\ stack' = <<>>
            /\ failedDirs' = result
            /\ status' = "main"
       ELSE /\ stack' = [SubSeq(stack, 1, Len(stack) - 1) EXCEPT ![Len(stack) - 1] =
                            [@ EXCEPT !.failures = AppendFailures(@, result), !.i = @ + 1]]
            /\ UNCHANGED <<failedDirs, status>>

\* lines 245-270: the skip decisions and the listing. statErr and readErr are
\* the failures os.Stat and ioutil.ReadDir may report on an existing directory
Enter ==
    /\ status = "running"
    /\ stack # <<>>
    /\ Top.pc = "enter"
    /\ \E statErr \in BOOLEAN, readErr \in BOOLEAN :
        LET f == Top
            stat == Stat(f.dirName, cwd)
            statFailed == statErr \/ stat = NilStat
            readFailed == readErr \/ stat = NilStat
        IN  IF InTrash(f.dirName)
            THEN Return(<<>>, TRUE) /\ UNCHANGED <<exitCode, infraErr>>
            ELSE IF statFailed /\ quitIfErr(statFailed)
            THEN Exit(1) /\ infraErr' = "stat" /\ UNCHANGED <<stack, failedDirs, rets>>
            ELSE IF SkipRequested(stat, conf) \/ HasIgnoreFile(f.dirName, cwd)
            THEN /\ Return(<<>>, TRUE)
                 /\ infraErr' = IF statFailed THEN "stat" ELSE infraErr
                 /\ UNCHANGED exitCode
            ELSE IF readFailed /\ quitIfErr(readFailed)
            THEN Exit(1) /\ infraErr' = "readdir" /\ UNCHANGED <<stack, failedDirs, rets>>
            ELSE /\ stack' = [stack EXCEPT ![Len(stack)] =
                                [f EXCEPT !.pc = "loop", !.infos = ReadDir(stat)]]
                 /\ infraErr' = IF statFailed THEN "stat"
                                ELSE IF readFailed THEN "readdir" ELSE infraErr
                 /\ UNCHANGED <<status, exitCode, failedDirs, rets>>
    /\ UNCHANGED <<fs, rootDir, conf, cwd, printed, calls>>

\* lines 272-283: one iteration of the loop over infos
LoopStep ==
    /\ status = "running"
    /\ stack # <<>>
    /\ Top.pc = "loop"
    /\ Top.i <= Len(Top.infos)
    /\ LET f == Top
           info == f.infos[f.i]
       IN  IF IsDir(info)
           THEN stack' = Append(stack, NewFrame(Join(f.dirName, info.name),
                                                Append(f.node, info.name)))
           ELSE stack' = [stack EXCEPT ![Len(stack)] =
                             [Classify(f, info) EXCEPT !.i = f.i + 1]]
    /\ UNCHANGED <<fs, rootDir, conf, cwd, status, exitCode, failedDirs, printed,
                   calls, rets, infraErr>>

\* lines 285-306: the decision, os.Chdir, the run of the go tool and the trimming
\* of its output. chdirErr is the failure os.Chdir may report on an existing
\* directory; ok and out are the tool's result
Exec ==
    /\ status = "running"
    /\ stack # <<>>
    /\ Top.pc = "loop"
    /\ Top.i > Len(Top.infos)
    /\ LET f == Top
           goRunOpts == GoRunOpts(f.anyTestsInDir, f.anyGoSrcsInDir, conf)
       IN  IF goRunOpts = <<>>
           THEN Return(f.failures, FALSE) /\ UNCHANGED <<cwd, exitCode, calls, infraErr>>
           ELSE /\ UNCHANGED <<failedDirs, rets>>
                /\ \E chdirErr \in BOOLEAN, ok \in BOOLEAN, out \in Outputs :
                    LET target == Stat(f.dirName, cwd)
                        chdirFailed == chdirErr \/ target = NilStat
                        newCwd == IF target = NilStat THEN cwd ELSE Chdir(target, cwd)
                    IN  IF chdirFailed /\ quitIfErr(chdirFailed)
                        THEN /\ Exit(1)
                             /\ infraErr' = "chdir"
                             /\ UNCHANGED <<cwd, stack, calls>>
                        ELSE /\ cwd' = newCwd
                             /\ infraErr' = IF chdirFailed THEN "chdir" ELSE infraErr
                             /\ calls' = Append(calls, [node |-> f.node, dirName |-> f.dirName,
                                                        cwd |-> newCwd, args |-> goRunOpts,
                                                        ok |-> ok,
                                                        anyTestsInDir |-> f.anyTestsInDir,
                                                        anyGoSrcsInDir |-> f.anyGoSrcsInDir])
                             /\ IF TrimOutput(out) = SlicePanic
                                THEN Exit(2) /\ UNCHANGED stack
                                ELSE /\ stack' = [stack EXCEPT ![Len(stack)] =
                                                    [f EXCEPT !.pc = "report", !.opts = goRunOpts,
                                                              !.raw = out, !.bytes = TrimOutput(out),
                                                              !.err = ~ok]]
                                     /\ UNCHANGED <<status, exitCode>>
    /\ UNCHANGED <<fs, rootDir, conf, printed>>

\* lines 308-322: the report of the run and the return
Report ==
    /\ status = "running"
    /\ stack # <<>>
    /\ Top.pc = "report"
    /\ LET f == Top
           thisDirPath == ThisDirPath(f.dirName, rootDir)
       IN  Return(IF f.err THEN Append(f.failures, thisDirPath) ELSE f.failures, FALSE)
    /\ UNCHANGED <<fs, rootDir, conf, cwd, exitCode, printed, calls, infraErr>>

\* lines 232-240: main after the traversal
Finish ==
    /\ status = "main"
    /\ IF Len(failedDirs) > 0
       THEN printed' = failedDirs /\ Exit(1)
       ELSE printed' = <<>> /\ Exit(0)
    /\ UNCHANGED <<fs, rootDir, conf, cwd, stack, failedDirs, calls, rets, infraErr>>

Next == Enter \/ LoopStep \/ Exec \/ Report \/ Finish

Spec == Init /\ [][Next]_vars

-----------------------------------------------------------------------------
(* What the properties speak of, read off the file system and the histories. *)

RootNode == Resolve(rootDir, <<>>)

DirNodes == {n \in DOMAIN fs : fs[n] = "dir"}

IsPrefix(a, b) == Len(a) <= Len(b) /\ SubSeq(b, 1, Len(a)) = a

\* the regular files immediately in directory n
RegularFiles(n) ==
    {q \in DOMAIN fs : Len(q) = Len(n) + 1 /\ IsPrefix(n, q) /\ fs[q] = "regular"}

\* the subdirectories of n, in the order of its listing
SubDirs(n) ==
    LET infos == SelectSeq(ReadDir(n), LAMBDA info : info.mode = "dir")
    IN  [i \in 1..Len(infos) |-> Append(n, infos[i].name)]

CallsAt(n) == {i \in DOMAIN calls : calls[i].node = n}

FailedAt(n) == \E i \in CallsAt(n) : ~calls[i].ok

\* the three reasons for which a directory is left out
SkipCase(n) ==
    \/ Contains(PathString(n), nTrash)
    \/ \E i \in DOMAIN conf.skipDirs : conf.skipDirs[i] = n
    \/ Append(n, fIgnore) \in DOMAIN fs

\* the traversal reaches n: neither n nor a directory above it is left out
Visitable(n) ==
    /\ IsPrefix(RootNode, n)
    /\ \A k \in Len(RootNode)..Len(n) : ~SkipCase(SubSeq(n, 1, k))

\* the failures of the subtree of n, children before n, siblings as listed
RECURSIVE ExpectedFailures(_)
RECURSIVE ExpectedOfAll(_)
ExpectedOfAll(dirs) ==
    IF dirs = <<>> THEN <<>>
    ELSE ExpectedFailures(Head(dirs)) \o ExpectedOfAll(Tail(dirs))
ExpectedFailures(n) ==
    ExpectedOfAll(SubDirs(n))
        \o (IF FailedAt(n) THEN <<ReplaceAll(PathString(n), rootDir)>> ELSE <<>>)

\* the arguments of the go tool as the action rule states them
ClaimedArgs(hasTestSources, hasBuildableSources, c) ==
    IF hasTestSources /\ ~c.buildOnly
    THEN <<sTest>> \o (IF c.short THEN <<sShort>> ELSE <<>>)
                   \o (IF c.race THEN <<sRace>> ELSE <<>>)
    ELSE IF hasBuildableSources THEN <<sBuild>>
    ELSE <<>>

HasTestFile(n) == \E q \in RegularFiles(n) : HasSuffix(q[Len(q)], TestSuffix)

HasGoFile(n) == \E q \in RegularFiles(n) : HasSuffix(q[Len(q)], GoSuffix)

HasNonTestGoFile(n) ==
    \E q \in RegularFiles(n) :
        HasSuffix(q[Len(q)], GoSuffix) /\ ~HasSuffix(q[Len(q)], TestSuffix)

\* the names of n below the root, joined by slashes
RECURSIVE JoinNames(_)
JoinNames(names) ==
    IF names = <<>> THEN <<>>
    ELSE IF Len(names) = 1 THEN names[1]
    ELSE names[1] \o <<"/">> \o JoinNames(Tail(names))

RelativePath(n) == JoinNames(SubSeq(n, Len(RootNode) + 1, Len(n)))

\* the output with its last character removed when that is a newline
TrimOneNewline(o) ==
    IF Len(o) > 0 /\ o[Len(o)] = "\n" THEN SubSeq(o, 1, Len(o) - 1) ELSE o

-----------------------------------------------------------------------------
(* The properties. *)

\* C1: every sequence RunTestsRecursively returns holds exactly the entries of
\* the directories of the subtree that were invoked and failed, each once,
\* depth first, a directory's descendants before it and siblings in listing
\* order; nothing a child returned is lost or overwritten.
C1_FailuresDepthFirst ==
    \A i \in DOMAIN rets : rets[i].result = ExpectedFailures(rets[i].node)

C1_Witness ==
    /\ status = "main"
    /\ Len(failedDirs) = 3
    /\ \E i \in DOMAIN calls : Len(calls[i].node) = Len(RootNode) + 2

\* C2: a directory whose path holds "trash", that is the same file as an entry
\* of conf.skipDirs, or that holds .alltestignore returns no failure, and the go
\* tool is never run in it nor is anything below it visited.
C2_SkippedSubtreeUntouched ==
    \A n \in DirNodes :
        SkipCase(n) =>
            /\ \A i \in DOMAIN rets :
                  IsPrefix(n, rets[i].node) => rets[i].node = n /\ rets[i].result = <<>>
            /\ \A i \in DOMAIN calls : ~IsPrefix(n, calls[i].node)
            /\ \A k \in DOMAIN stack :
                  IsPrefix(n, stack[k].node) => stack[k].node = n /\ stack[k].pc = "enter"

C2_Witness ==
    /\ status = "exited"
    /\ exitCode = 0
    /\ \E n \in DirNodes, m \in DirNodes :
          /\ SkipCase(n)
          /\ ~Contains(PathString(n), nTrash)
          /\ \E i \in DOMAIN rets : rets[i].node = n
          /\ IsPrefix(n, m)
          /\ m # n
          /\ HasTestFile(m)

\* C3: the go tool is run with "test" (then "-short" iff conf.short, then
\* "-race" iff conf.race) iff the directory has tests and buildOnly is off,
\* otherwise with "build" alone iff it has go sources, otherwise not at all;
\* with buildOnly no run is a test, and a build never carries a modifier.
C3_ActionFromFlags ==
    /\ \A i \in DOMAIN calls :
          /\ calls[i].args # <<>>
          /\ calls[i].args
                = ClaimedArgs(calls[i].anyTestsInDir, calls[i].anyGoSrcsInDir, conf)
          /\ conf.buildOnly => calls[i].args[1] # sTest
          /\ calls[i].args[1] = sBuild => calls[i].args = <<sBuild>>
    /\ \A i \in DOMAIN rets :
          ~rets[i].skipped =>
              Cardinality(CallsAt(rets[i].node))
                 = IF ClaimedArgs(rets[i].anyTestsInDir, rets[i].anyGoSrcsInDir, conf) = <<>>
                   THEN 0 ELSE 1

C3_Witness ==
    /\ conf.buildOnly
    /\ conf.short
    /\ conf.race
    /\ \E i \in DOMAIN calls : calls[i].anyTestsInDir /\ calls[i].args = <<sBuild>>
    /\ \E i \in DOMAIN rets : ~rets[i].skipped /\ CallsAt(rets[i].node) = {}

\* C4: the entry of a failing directory below the root is its path relative
\* to the root ("pkgA" for root/pkgA), and two failing directories never have
\* the same entry.
C4_EntryIsRelativePath ==
    \A i \in DOMAIN rets :
        (rets[i].node # RootNode /\ FailedAt(rets[i].node)) =>
            /\ rets[i].result[Len(rets[i].result)] = RelativePath(rets[i].node)
            /\ \A j \in DOMAIN rets :
                  (FailedAt(rets[j].node) /\ rets[j].node # rets[i].node) =>
                      rets[j].result[Len(rets[j].result)]
                          # rets[i].result[Len(rets[i].result)]

\* C5: the exit status is 0 iff the traversal completed without a failure; it
\* is 1, after the failed directories were listed, when a run of the go tool
\* failed, and 1 when os.Stat, ReadDir or Chdir failed.
C5_ExitStatus ==
    status = "exited" =>
        /\ exitCode = 0 <=>
              \E i \in DOMAIN rets : rets[i].node = RootNode /\ rets[i].result = <<>>
        /\ (\E i \in DOMAIN calls : ~calls[i].ok) => exitCode = 1
        /\ infraErr # "none" => exitCode = 1
        /\ (exitCode = 1 /\ infraErr = "none") => (printed # <<>> /\ printed = failedDirs)

\* C6: a failing run never stops the traversal: when the process ends without
\* an os.Stat, ReadDir or Chdir error, every directory that is not skipped and
\* has an action was run exactly once, and no directory is ever run twice.
C6_EveryDirectoryRunOnce ==
    /\ \A n \in DirNodes : Cardinality(CallsAt(n)) <= 1
    /\ (status = "exited" /\ infraErr = "none") =>
          \A n \in DirNodes :
              (Visitable(n) /\ ClaimedArgs(HasTestFile(n), HasNonTestGoFile(n), conf) # <<>>)
                  => Cardinality(CallsAt(n)) = 1

\* C7: once os.Stat, ReadDir or Chdir has failed the process has exited with
\* status 1, nothing was listed or kept as a failure of main, and nothing
\* happens any more: no visit, no run.
C7_InfraErrorAborts ==
    [][ /\ infraErr' # "none" =>
            /\ status' = "exited"
            /\ exitCode' = 1
            /\ printed' = <<>>
            /\ failedDirs' = <<>>
        /\ infraErr # "none" => UNCHANGED <<stack, calls, rets, cwd>> ]_vars

C7_Witness ==
    /\ infraErr = "readdir"
    /\ status = "exited"
    /\ \E i \in DOMAIN calls : ~calls[i].ok

\* C8: every run of the go tool has the evaluated directory as its working
\* directory, and every path the traversal uses names the same directory
\* whatever the working directory is.
C8_WorkingDirectory ==
    /\ \A i \in DOMAIN calls : calls[i].cwd = calls[i].node
    /\ \A k \in DOMAIN stack :
          /\ IsPrefix(rootDir, stack[k].dirName)
          /\ \A wd \in DirNodes : Resolve(stack[k].dirName, wd) = stack[k].node

C8_Witness ==
    /\ Len(calls) >= 1
    /\ stack # <<>>
    /\ Top.pc = "report"
    /\ Len(calls) >= 2
    /\ calls[1].cwd # calls[Len(calls)].cwd
    /\ ~IsPrefix(calls[1].cwd, calls[Len(calls)].cwd)
    /\ ~IsPrefix(calls[Len(calls)].cwd, calls[1].cwd)

\* C9 as stated: hasBuildableSources holds iff an immediate regular file ends
\* in ".go", test file or not; so with buildOnly a directory whose only go
\* files are test files is built.
C9_TestFilesAreBuildable ==
    \A i \in DOMAIN rets :
        ~rets[i].skipped =>
            /\ rets[i].anyGoSrcsInDir = HasGoFile(rets[i].node)
            /\ (conf.buildOnly /\ HasGoFile(rets[i].node)) =>
                  \E j \in CallsAt(rets[i].node) : calls[j].args = <<sBuild>>

\* C9 amended: anyGoSrcsInDir holds iff an immediate regular file ends in ".go"
\* and not in "_test.go", anyTestsInDir iff one ends in "_test.go"; so with
\* buildOnly a directory whose only go files are test files is not run at all.
\* Only immediate regular files count.
C9_OnlyNonTestFilesAreBuildable ==
    \A i \in DOMAIN rets :
        ~rets[i].skipped =>
            /\ rets[i].anyGoSrcsInDir = HasNonTestGoFile(rets[i].node)
            /\ rets[i].anyTestsInDir = HasTestFile(rets[i].node)
            /\ (conf.buildOnly /\ ~HasNonTestGoFile(rets[i].node)) =>
                  CallsAt(rets[i].node) = {}

C9_Witness ==
    /\ conf.buildOnly
    /\ \E i \in DOMAIN rets :
          /\ ~rets[i].skipped
          /\ HasTestFile(rets[i].node)
          /\ ~HasNonTestGoFile(rets[i].node)
          /\ \E n \in DirNodes : HasSuffix(n[Len(n)], GoSuffix) /\ IsPrefix(rets[i].node, n)
                                  /\ Len(n) = Len(rets[i].node) + 1

\* C10: the output reported is the captured output without its last character
\* when that is a newline, the captured output otherwise; the trimming never
\* fails.
C10_TrimOneNewline ==
    /\ exitCode # 2
    /\ (stack # <<>> /\ Top.pc = "report") => Top.bytes = TrimOneNewline(Top.raw)

====
